---- MODULE Spec2Model ----
(***************************************************************************)
(* TransD (pykg2vec/core/TransD.py): parameter tables, the projection      *)
(* transform, the dissimilarity score, the pairwise loss and the ranking   *)
(* query.                                                                  *)
(*                                                                         *)
(* Numbers.  Table cells are small integers, which float32 holds exactly;  *)
(* projection only adds and multiplies them, so projected vectors are      *)
(* exact integers as well.  l2_normalize produces irrational numbers: its  *)
(* result is held in fixed point, in units of 1/Scale, rounded toward      *)
(* zero.  A score is therefore in units of 1/Scale (L1) or 1/Scale^2 (L2). *)
(*                                                                         *)
(* Tensors.  A rank-2 tensor is a non-empty sequence of rows of equal      *)
(* length; a rank-1 tensor (ids, scores, ranks) is a sequence.  The        *)
(* arithmetic of two tensors follows the broadcasting rule of the tensor   *)
(* library: two dimensions are compatible when they are equal or one of    *)
(* them is 1, and the operation raises an error otherwise.                 *)
(***************************************************************************)
EXTENDS Integers, Sequences, FiniteSets, TLC

\* ------------------------------------------------------------- bounds
NumEnt == 2        \* config.kg_meta.tot_entity
NumRel == 2        \* config.kg_meta.tot_relation
MaxEntDim == 2     \* config.ent_hidden_size ranges over 1..MaxEntDim
MaxRelDim == 3     \* config.rel_hidden_size ranges over 1..MaxRelDim
MaxBatch == 2      \* a batch holds 1..MaxBatch examples
MaxSeed == 1       \* seeds of the random initializer
Scale == 16        \* fixed-point resolution of a normalized component
Steps == {1, 3}    \* strides between the examples of a generated batch
Margins == {1}     \* config.margin

VARIABLES
  config,          \* self.config: sizes, L1_flag, margin
  ent_embeddings,  \* self.ent_embeddings, <<>> before def_parameters
  rel_embeddings,  \* self.rel_embeddings
  ent_mappings,    \* self.ent_mappings
  rel_mappings,    \* self.rel_mappings
  parameter_list,  \* self.parameter_list: the names of the four variables
  call,            \* the last call: its name and arguments
  ret,             \* what the last call returned or raised
  first            \* call history: what embed returned on ProbeBatch the first
                   \* time since def_parameters, and whether calls followed it

vars == <<config, ent_embeddings, rel_embeddings, ent_mappings, rel_mappings,
          parameter_list, call, ret, first>>

tables == <<ent_embeddings, rel_embeddings, ent_mappings, rel_mappings>>

\* ------------------------------------------------------------- results
Ok(v) == [raised |-> FALSE, value |-> v]
Raise == [raised |-> TRUE, value |-> <<>>]
None == [name |-> "none", args |-> <<>>]
NoHistory == [called |-> FALSE, ret |-> Ok(<<>>), between |-> FALSE]

\* ------------------------------------------------------------- arithmetic
Abs(x) == IF x < 0 THEN -x ELSE x
Sign(x) == IF x < 0 THEN -1 ELSE IF x > 0 THEN 1 ELSE 0

RECURSIVE SumSeq(_)
SumSeq(s) == IF s = <<>> THEN 0 ELSE Head(s) + SumSeq(Tail(s))

\* floor of the square root of n, for 0 <= n <= Scale^2
ISqrt(n) == CHOOSE q \in 0..Scale : q * q <= n /\ (q + 1) * (q + 1) > n

\* ------------------------------------------------------------- tensors
\* a function with domain 1..n as the sequence (tuple) it is
AsSeq(f) == f \o <<>>

Rows(x) == Len(x)
Cols(x) == Len(x[1])
Shape(x) == <<Rows(x), Cols(x)>>

\* the broadcast of two dimensions, 0 when they are incompatible
BroadcastDim(m, n) ==
  IF m = n THEN m ELSE IF m = 1 THEN n ELSE IF n = 1 THEN m ELSE 0

Broadcastable(x, y) ==
  /\ BroadcastDim(Rows(x), Rows(y)) # 0
  /\ BroadcastDim(Cols(x), Cols(y)) # 0

At(x, i, j) == x[IF Rows(x) = 1 THEN 1 ELSE i][IF Cols(x) = 1 THEN 1 ELSE j]

\* x + y, x - y, x * y, elementwise with broadcasting
TAdd(x, y) ==
  AsSeq([i \in 1..BroadcastDim(Rows(x), Rows(y)) |->
     AsSeq([j \in 1..BroadcastDim(Cols(x), Cols(y)) |-> At(x, i, j) + At(y, i, j)])])

TSub(x, y) ==
  AsSeq([i \in 1..BroadcastDim(Rows(x), Rows(y)) |->
     AsSeq([j \in 1..BroadcastDim(Cols(x), Cols(y)) |-> At(x, i, j) - At(y, i, j)])])

TMul(x, y) ==
  AsSeq([i \in 1..BroadcastDim(Rows(x), Rows(y)) |->
     AsSeq([j \in 1..BroadcastDim(Cols(x), Cols(y)) |-> At(x, i, j) * At(y, i, j)])])

\* tf.math.abs(x), tf.math.square(x)
TAbs(x) == AsSeq([i \in 1..Rows(x) |-> AsSeq([j \in 1..Cols(x) |-> Abs(x[i][j])])])
TSquare(x) ==
  AsSeq([i \in 1..Rows(x) |-> AsSeq([j \in 1..Cols(x) |-> x[i][j] * x[i][j]])])

\* tf.reduce_sum(x, axis=-1, keepdims=True): shape [b, 1]
ReduceSumKeep(x) == AsSeq([i \in 1..Rows(x) |-> <<SumSeq(x[i])>>])
\* tf.reduce_sum(x, axis=-1): shape [b]
ReduceSum(x) == AsSeq([i \in 1..Rows(x) |-> SumSeq(x[i])])

\* tf.nn.embedding_lookup(params, ids): ids are 0-based row indices
embedding_lookup(params, ids) == AsSeq([i \in 1..Len(ids) |-> params[ids[i] + 1]])

\* tf.nn.l2_normalize(x, axis=-1) = x * rsqrt(max(sum(x^2), epsilon)):
\* a zero row stays zero; the result is in units of 1/Scale
NormalizeRow(row) ==
  LET ss == SumSeq(AsSeq([j \in 1..Len(row) |-> row[j] * row[j]]))
  IN  AsSeq([j \in 1..Len(row) |->
         IF ss = 0 THEN 0
         ELSE Sign(row[j]) * ISqrt((row[j] * row[j] * Scale * Scale) \div ss)])

l2_normalize(x) == AsSeq([i \in 1..Rows(x) |-> NormalizeRow(x[i])])

\* ------------------------------------------------------------- initializer
\* tf.initializers.glorot_normal()(shape): a pseudo-random draw; the seed is
\* the nondeterminism of the draw.  Cells range over -2..2.
Glorot(rows, cols, seed) ==
  AsSeq([i \in 1..rows |->
     AsSeq([j \in 1..cols |-> (((seed + i + 1) * j + 3 * seed) % 5) - 2])])

\* ------------------------------------------------------------- TransD
DefParametersDone == ent_embeddings # <<>>

\* projection with the entity's own mapping in the place of proj_vec
projection_own_mapping(emb_e, emb_m, proj_vec) ==
  LET dot == ReduceSumKeep(TMul(emb_e, emb_m))
  IN  IF ~Broadcastable(dot, proj_vec) THEN <<>>
      ELSE LET scaled == TMul(dot, emb_m)
           IN  IF ~Broadcastable(emb_e, TMul(dot, proj_vec)) THEN <<>>
               ELSE TAdd(emb_e, scaled)

\* projection: emb_e + reduce_sum(emb_e * emb_m, -1, keepdims) * proj_vec;
\* <<>> when a broadcast is impossible
projection(emb_e, emb_m, proj_vec) ==
  LET dot == ReduceSumKeep(TMul(emb_e, emb_m))
  IN  IF ~Broadcastable(dot, proj_vec) THEN <<>>
      ELSE LET scaled == TMul(dot, proj_vec)
           IN  IF ~Broadcastable(emb_e, scaled) THEN <<>>
               ELSE TAdd(emb_e, scaled)

\* embed that projects only until the probe batch was embedded once, and
\* returns the raw lookups afterwards: a result that depends on the history
embed_history(h, r, t) ==
  LET emb_h == embedding_lookup(ent_embeddings, h)
      emb_r == embedding_lookup(rel_embeddings, r)
      emb_t == embedding_lookup(ent_embeddings, t)
      h_m == embedding_lookup(ent_mappings, h)
      r_m == embedding_lookup(rel_mappings, r)
      t_m == embedding_lookup(ent_mappings, t)
      proj_h == projection(emb_h, h_m, r_m)
      proj_t == projection(emb_t, t_m, r_m)
  IN  IF proj_h = <<>> \/ proj_t = <<>> THEN Raise
      ELSE IF first.called THEN Ok(<<emb_h, emb_r, emb_t>>)
      ELSE Ok(<<proj_h, emb_r, proj_t>>)

\* embed(h, r, t): <<emb_h, emb_r, emb_t>>
embed(h, r, t) ==
  LET emb_h == embedding_lookup(ent_embeddings, h)
      emb_r == embedding_lookup(rel_embeddings, r)
      emb_t == embedding_lookup(ent_embeddings, t)
      h_m == embedding_lookup(ent_mappings, h)
      r_m == embedding_lookup(rel_mappings, r)
      t_m == embedding_lookup(ent_mappings, t)
      proj_h == projection(emb_h, h_m, r_m)
      proj_t == projection(emb_t, t_m, r_m)
  IN  IF proj_h = <<>> \/ proj_t = <<>> THEN Raise
      ELSE Ok(<<proj_h, emb_r, proj_t>>)

\* dissimilarity without the absolute value of the L1 branch
dissimilarity_no_abs(h, r, t) ==
  LET norm_h == l2_normalize(h)
      norm_r == l2_normalize(r)
      norm_t == l2_normalize(t)
  IN  IF ~Broadcastable(norm_h, norm_r) THEN Raise
      ELSE LET hr == TAdd(norm_h, norm_r)
           IN  IF ~Broadcastable(hr, norm_t) THEN Raise
               ELSE LET diff == TSub(hr, norm_t)
                    IN  Ok(ReduceSum(IF config.L1_flag THEN diff
                                     ELSE TSquare(diff)))

\* dissimilarity(h, r, t, axis=-1): one score per example
dissimilarity(h, r, t) ==
  LET norm_h == l2_normalize(h)
      norm_r == l2_normalize(r)
      norm_t == l2_normalize(t)
  IN  IF ~Broadcastable(norm_h, norm_r) THEN Raise
      ELSE LET hr == TAdd(norm_h, norm_r)
           IN  IF ~Broadcastable(hr, norm_t) THEN Raise
               ELSE LET diff == TSub(hr, norm_t)
                    IN  Ok(ReduceSum(IF config.L1_flag THEN TAbs(diff)
                                     ELSE TSquare(diff)))

\* one unit of score in fixed point: 1/Scale (L1), 1/Scale^2 (L2)
ScoreUnit == IF config.L1_flag THEN Scale ELSE Scale * Scale

\* ModelMeta.pairwise_margin_loss:
\* mean(max(0, margin + positive_score - negative_score)), kept as the
\* exact fraction num/den
pairwise_margin_loss(score_positive, score_negative) ==
  LET n == BroadcastDim(Len(score_positive), Len(score_negative))
      pos(i) == score_positive[IF Len(score_positive) = 1 THEN 1 ELSE i]
      neg(i) == score_negative[IF Len(score_negative) = 1 THEN 1 ELSE i]
      hinge(i) == LET v == config.margin * ScoreUnit + pos(i) - neg(i)
                  IN  IF v > 0 THEN v ELSE 0
  IN  IF n = 0 THEN Raise
      ELSE Ok([num |-> SumSeq(AsSeq([i \in 1..n |-> hinge(i)])), den |-> n])

\* get_loss that embeds the positive batch a second time for neg_score
get_loss_positive_twice(pos_h, pos_r, pos_t, neg_h, neg_r, neg_t) ==
  LET pos_e == embed(pos_h, pos_r, pos_t)
  IN  IF pos_e.raised THEN Raise
      ELSE LET pos_score == dissimilarity(pos_e.value[1], pos_e.value[2], pos_e.value[3])
           IN  IF pos_score.raised THEN Raise
               ELSE pairwise_margin_loss(pos_score.value, pos_score.value)

get_loss(pos_h, pos_r, pos_t, neg_h, neg_r, neg_t) ==
  LET pos_e == embed(pos_h, pos_r, pos_t)
  IN  IF pos_e.raised THEN Raise
      ELSE LET pos_score == dissimilarity(pos_e.value[1], pos_e.value[2], pos_e.value[3])
           IN  IF pos_score.raised THEN Raise
               ELSE LET neg_e == embed(neg_h, neg_r, neg_t)
                    IN  IF neg_e.raised THEN Raise
                        ELSE LET neg_score == dissimilarity(neg_e.value[1], neg_e.value[2],
                                                            neg_e.value[3])
                             IN  IF neg_score.raised THEN Raise
                                 ELSE pairwise_margin_loss(pos_score.value, neg_score.value)

\* tf.nn.top_k(input, k): the 0-based indices of the k largest entries, the
\* largest first, the lower index first among equal entries; k < 0 and
\* k > len(input) raise
Before(score, i, j) == score[i] > score[j] \/ (score[i] = score[j] /\ i < j)

top_k(score, k) ==
  IF k < 0 \/ k > Len(score) THEN Raise
  ELSE Ok(AsSeq([p \in 1..k |->
             (CHOOSE i \in 1..Len(score) :
                Cardinality({j \in 1..Len(score) : Before(score, j, i)}) = p - 1) - 1]))

predict_rank(h, r, t, topk) ==
  LET e == embed(h, r, t)
  IN  IF e.raised THEN Raise
      ELSE LET score == dissimilarity(e.value[1], e.value[2], e.value[3])
           IN  IF score.raised THEN Raise
               ELSE top_k(score.value, topk)

\* ------------------------------------------------------------- inputs
Configs ==
  [tot_entity : {NumEnt}, tot_relation : {NumRel},
   ent_hidden_size : 1..MaxEntDim, rel_hidden_size : 1..MaxRelDim,
   L1_flag : BOOLEAN, margin : Margins]

NumTriples == NumEnt * NumRel * NumEnt

\* the idx-th triple <<h, r, t>> of the id space, idx in 0..NumTriples-1
TripleAt(idx) ==
  <<idx \div (NumRel * NumEnt), (idx \div NumEnt) % NumRel, idx % NumEnt>>

\* a batch of b triples: the triples start, start+step, ... of the id space
Batch(start, step, b) ==
  AsSeq([i \in 1..b |-> TripleAt((start + (i - 1) * step) % NumTriples)])

Batches ==
  {Batch(start, step, b) :
     start \in 0..(NumTriples - 1), step \in Steps, b \in 1..MaxBatch}

Hs(batch) == AsSeq([i \in 1..Len(batch) |-> batch[i][1]])
Rs(batch) == AsSeq([i \in 1..Len(batch) |-> batch[i][2]])
Ts(batch) == AsSeq([i \in 1..Len(batch) |-> batch[i][3]])

\* a negative batch: every head (or every tail) replaced by entity e
Corrupt(batch, side, e) ==
  AsSeq([i \in 1..Len(batch) |->
     IF side = "head" THEN <<e, batch[i][2], batch[i][3]>>
     ELSE <<batch[i][1], batch[i][2], e>>])

\* the full sweep over all entities, [num_tot_entity]
Sweep == AsSeq([i \in 1..NumEnt |-> i - 1])

\* the batch whose embed result the call history records
ProbeBatch == Batch(0, 1, MaxBatch)

\* ------------------------------------------------------------- actions
\* no call is running: the caller is between two calls
Idle == call.name = "none"

\* the history once one more call was made
Later == IF first.called THEN [first EXCEPT !.between = TRUE] ELSE first

Init ==
  /\ config \in Configs
  /\ ent_embeddings = <<>>
  /\ rel_embeddings = <<>>
  /\ ent_mappings = <<>>
  /\ rel_mappings = <<>>
  /\ parameter_list = <<>>
  /\ call = None
  /\ ret = Ok(<<>>)
  /\ first = NoHistory

\* def_parameters: four draws of the initializer, in the order of the code
DefParameters ==
  \E seed \in 0..MaxSeed :
    LET num_total_ent == config.tot_entity
        num_total_rel == config.tot_relation
        d == config.ent_hidden_size
        k == config.rel_hidden_size
    IN  /\ Idle
        /\ ent_embeddings' = Glorot(num_total_ent, d, 4 * seed)
        /\ rel_embeddings' = Glorot(num_total_rel, k, 4 * seed + 1)
        /\ ent_mappings' = Glorot(num_total_ent, d, 4 * seed + 2)
        /\ rel_mappings' = Glorot(num_total_rel, k, 4 * seed + 3)
        /\ parameter_list' =
             <<"ent_embeddings", "rel_embeddings", "ent_mappings", "rel_mappings">>
        /\ call' = [name |-> "def_parameters", args |-> <<>>]
        /\ ret' = Ok(<<>>)
        /\ first' = NoHistory
        /\ UNCHANGED config

\* embed that normalizes the entity embeddings in place before the lookup
EmbedNormalizesInPlace ==
  \E batch \in Batches :
    /\ Idle
    /\ DefParametersDone
    /\ ent_embeddings' = l2_normalize(ent_embeddings)
    /\ call' = [name |-> "embed", args |-> <<Hs(batch), Rs(batch), Ts(batch)>>]
    /\ ret' = embed(Hs(batch), Rs(batch), Ts(batch))
    /\ first' = IF batch = ProbeBatch /\ ~first.called
                THEN [called |-> TRUE, ret |-> ret', between |-> FALSE]
                ELSE Later
    /\ UNCHANGED <<config, rel_embeddings, ent_mappings, rel_mappings, parameter_list>>

Embed ==
  \E batch \in Batches :
    /\ Idle
    /\ DefParametersDone
    /\ call' = [name |-> "embed", args |-> <<Hs(batch), Rs(batch), Ts(batch)>>]
    /\ ret' = embed(Hs(batch), Rs(batch), Ts(batch))
    /\ first' = IF batch = ProbeBatch /\ ~first.called
                THEN [called |-> TRUE, ret |-> ret', between |-> FALSE]
                ELSE Later
    /\ UNCHANGED <<config, tables, parameter_list>>

\* the caller passes the three tensors embed returned on to dissimilarity,
\* as get_loss and predict_rank do
DissimilarityOfEmbed ==
  /\ call.name = "embed"
  /\ ~ret.raised
  /\ call' = [name |-> "dissimilarity_of_embed", args |-> call.args]
  /\ ret' = dissimilarity(ret.value[1], ret.value[2], ret.value[3])
  /\ UNCHANGED <<config, tables, parameter_list, first>>

\* dissimilarity on any three equal-shaped batches of vectors
Dissimilarity ==
  \E b \in 1..MaxBatch, c \in 1..MaxRelDim, s1 \in 0..MaxSeed, s2 \in 0..MaxSeed :
    LET h == Glorot(b, c, s1)
        r == Glorot(b, c, s2 + 1)
        t == Glorot(b, c, s1 + s2 + 2)
    IN  /\ Idle
        /\ call' = [name |-> "dissimilarity", args |-> <<h, r, t>>]
        /\ ret' = dissimilarity(h, r, t)
        /\ first' = Later
        /\ UNCHANGED <<config, tables, parameter_list>>

GetLoss ==
  \E batch \in Batches, side \in {"head", "tail"}, e \in 0..(NumEnt - 1) :
    LET neg == Corrupt(batch, side, e)
    IN  /\ Idle
        /\ DefParametersDone
        /\ call' = [name |-> "get_loss",
                    args |-> <<Hs(batch), Rs(batch), Ts(batch), Hs(neg), Rs(neg), Ts(neg)>>]
        /\ ret' = get_loss(Hs(batch), Rs(batch), Ts(batch), Hs(neg), Rs(neg), Ts(neg))
        /\ first' = Later
        /\ UNCHANGED <<config, tables, parameter_list>>

\* predict_rank: h (or t) is the sweep over all entities, the other two [1]
PredictRank ==
  \E side \in {"head", "tail"}, e \in 0..(NumEnt - 1), r \in 0..(NumRel - 1),
     topk \in -1..(NumEnt + 1) :
    LET h == IF side = "head" THEN Sweep ELSE <<e>>
        t == IF side = "tail" THEN Sweep ELSE <<e>>
    IN  /\ Idle
        /\ DefParametersDone
        /\ call' = [name |-> "predict_rank", args |-> <<h, <<r>>, t, topk>>]
        /\ ret' = predict_rank(h, <<r>>, t, topk)
        /\ first' = Later
        /\ UNCHANGED <<config, tables, parameter_list>>

\* the call returns to its caller, which is then free to make the next call
Return ==
  /\ ~Idle
  /\ call' = None
  /\ ret' = Ok(<<>>)
  /\ UNCHANGED <<config, tables, parameter_list, first>>

Next ==
  \/ DefParameters
  \/ Embed
  \/ Dissimilarity
  \/ DissimilarityOfEmbed
  \/ GetLoss
  \/ PredictRank
  \/ Return

Spec == Init /\ [][Next]_vars

\* ------------------------------------------------------------- claims
d == config.ent_hidden_size
k == config.rel_hidden_size
Dot(u, v) == SumSeq([j \in 1..Len(u) |-> u[j] * v[j]])
Range(f) == {f[i] : i \in 1..Len(f)}

\* the scores predict_rank ranks: one per candidate
CandidateScores(h, r, t) ==
  LET e == embed(h, r, t)
  IN  dissimilarity(e.value[1], e.value[2], e.value[3]).value

\* C1: for 1 <= topk <= n predict_rank returns the indices of the topk lowest
\* scores in ascending order of score; with topk = n a permutation of all
\* candidate indices whose first index has the minimum score (stated for
\* d = k, where embed raises no error).
C1_LowestAscending ==
  (/\ call.name = "predict_rank"
   /\ d = k
   /\ call.args[4] >= 1
   /\ call.args[4] <= NumEnt) =>
    LET topk == call.args[4]
        score == CandidateScores(call.args[1], call.args[2], call.args[3])
        n == Len(score)
        rank == ret.value
    IN  /\ ~ret.raised
        /\ Len(rank) = topk
        /\ \A p \in 1..(topk - 1) : score[rank[p] + 1] <= score[rank[p + 1] + 1]
        /\ \A p \in 1..topk : \A j \in 1..n :
             (j - 1) \notin Range(rank) => score[rank[p] + 1] <= score[j]
        /\ topk = n =>
             /\ Range(rank) = 0..(n - 1)
             /\ \A j \in 1..n : score[rank[1] + 1] <= score[j]

\* C2: predict_rank with topk = -1, the default, returns the full ranking of
\* all n candidates and raises no error (stated for d = k).
C2_DefaultTopkRanksAll ==
  (/\ call.name = "predict_rank"
   /\ d = k
   /\ call.args[4] = -1) =>
    /\ ~ret.raised
    /\ Len(ret.value) = NumEnt
    /\ Range(ret.value) = 0..(NumEnt - 1)

\* C3: with d # k, def_parameters or the first embed raises a dimension
\* mismatch; def_parameters never raises, so embed must.
C3_MismatchRaises ==
  (call.name = "embed" /\ d # k) => ret.raised

\* C4: whenever embed returns, for each example i
\* head = E[h_i] + (E[h_i] . M[h_i]) * Rm[r_i], tail likewise with t_i, and
\* relation = R[r_i]; for d # k the components of a length-1 vector are
\* paired with every component of the other, as the broadcast does.
C4_EmbedFormula ==
  (call.name = "embed" /\ ~ret.raised) =>
    LET h == call.args[1]
        r == call.args[2]
        t == call.args[3]
        E(e) == ent_embeddings[e + 1]
        M(e) == ent_mappings[e + 1]
        R(x) == rel_embeddings[x + 1]
        Rm(x) == rel_mappings[x + 1]
        width == IF d > k THEN d ELSE k
        Projected(e, x) ==
          [j \in 1..width |->
             E(e)[IF d = 1 THEN 1 ELSE j]
               + Dot(E(e), M(e)) * Rm(x)[IF k = 1 THEN 1 ELSE j]]
    IN  /\ Len(ret.value) = 3
        /\ \A v \in 1..3 : Len(ret.value[v]) = Len(h)
        /\ \A i \in 1..Len(h) :
             /\ ret.value[1][i] = Projected(h[i], r[i])
             /\ ret.value[2][i] = R(r[i])
             /\ ret.value[3][i] = Projected(t[i], r[i])

C4_Witness ==
  /\ call.name = "embed"
  /\ ~ret.raised
  /\ d = 2
  /\ k = 2
  /\ Len(call.args[1]) = 2
  /\ call.args[1][1] # call.args[1][2]
  /\ call.args[2][1] # call.args[2][2]
  /\ ret.value[1] # embedding_lookup(ent_embeddings, call.args[1])
  /\ ret.value[3] # embedding_lookup(ent_embeddings, call.args[3])

\* C5: whenever embed returns on a batch of b ids, head, relation and tail
\* all have shape (b, k).
C5_ShapesBatchByK ==
  (call.name = "embed" /\ ~ret.raised) =>
    \A v \in 1..3 : Shape(ret.value[v]) = <<Len(call.args[1]), k>>

\* the scores get_loss compares: one per example of a batch of ids
Scores(h, r, t) == CandidateScores(h, r, t)

\* C6: whenever get_loss returns, the loss is 0 exactly when
\* negative_score - positive_score >= margin for every example, and
\* strictly positive otherwise.
C6_LossZeroIffMargin ==
  (call.name = "get_loss" /\ ~ret.raised) =>
    LET pos == Scores(call.args[1], call.args[2], call.args[3])
        neg == Scores(call.args[4], call.args[5], call.args[6])
        met(i) == neg[i] - pos[i] >= config.margin * ScoreUnit
    IN  /\ ret.value.den > 0
        /\ ret.value.num >= 0
        /\ (ret.value.num = 0) <=> (\A i \in 1..Len(pos) : met(i))

\* a batch in which one example meets the margin and another does not
C6_Witness ==
  /\ call.name = "get_loss"
  /\ ~ret.raised
  /\ ret.value.num > 0
  /\ LET pos == Scores(call.args[1], call.args[2], call.args[3])
         neg == Scores(call.args[4], call.args[5], call.args[6])
     IN  /\ \E i \in 1..Len(pos) : neg[i] - pos[i] >= config.margin * ScoreUnit
         /\ \E i \in 1..Len(pos) : neg[i] - pos[i] < config.margin * ScoreUnit

\* C7: on equal-shaped batches every score of dissimilarity is the sum of
\* the absolute values (L1_flag) or of the squares of the components of
\* normalized_head + normalized_relation - normalized_tail, and is >= 0.
C7_ScoresNonNegative ==
  (call.name = "dissimilarity") =>
    LET nh == l2_normalize(call.args[1])
        nr == l2_normalize(call.args[2])
        nt == l2_normalize(call.args[3])
        c(i, j) == nh[i][j] + nr[i][j] - nt[i][j]
        term(i, j) == IF config.L1_flag THEN Abs(c(i, j)) ELSE c(i, j) * c(i, j)
    IN  /\ ~ret.raised
        /\ Len(ret.value) = Len(call.args[1])
        /\ \A i \in 1..Len(ret.value) :
             /\ ret.value[i] >= 0
             /\ ret.value[i] = SumSeq([j \in 1..Len(nh[i]) |-> term(i, j)])

\* an L1 score with a negative component under the absolute value
C7_Witness ==
  /\ call.name = "dissimilarity"
  /\ config.L1_flag
  /\ ~ret.raised
  /\ LET nh == l2_normalize(call.args[1])
         nr == l2_normalize(call.args[2])
         nt == l2_normalize(call.args[3])
     IN  \E i \in 1..Len(nh) : \E j \in 1..Len(nh[i]) :
           /\ nh[i][j] + nr[i][j] - nt[i][j] < 0
           /\ ret.value[i] > 0

\* C8: embed, dissimilarity, get_loss and predict_rank leave the four
\* tables and parameter_list unchanged: a step that changes one of them is
\* a step of def_parameters.
C8_TablesReadOnly ==
  [][(tables' # tables \/ parameter_list' # parameter_list)
       => call'.name = "def_parameters"]_vars

\* calls of every kind have run since the tables were drawn
C8_Witness ==
  /\ call.name \in {"get_loss", "predict_rank"}
  /\ ~ret.raised
  /\ first.called
  /\ first.between

C10_SameEntityRelationOnly ==
  (call.name = "dissimilarity_of_embed" /\ ~ret.raised) =>
    LET h == call.args[1]
        r == call.args[2]
        t == call.args[3]
        e == embed(h, r, t)
        nr(i) == NormalizeRow(rel_embeddings[r[i] + 1])
        alone(i) == SumSeq([j \in 1..k |->
                      IF config.L1_flag THEN Abs(nr(i)[j]) ELSE nr(i)[j] * nr(i)[j]])
    IN  \A i \in 1..Len(h) :
          h[i] = t[i] =>
            /\ e.value[1][i] = e.value[3][i]
            /\ ret.value[i] = alone(i)

====
